---- MODULE Spec2Model ----
(***************************************************************************)
(* Caching proxy server (main.go): the Cache store with its RWMutex, the   *)
(* responseRecorder, ProxyServer.handleRequest, NewProxyServer and the     *)
(* commands of main, as a state machine.                                   *)
(*                                                                         *)
(* Eight specifications share the variables:                                *)
(*   Spec      - the running proxy: one goroutine per request running      *)
(*               handleRequest, the dashboard goroutine clearing the       *)
(*               cache, and the clock;                                     *)
(*   CacheSpec - goroutines calling Cache.Get/Set/Clear/Size directly with *)
(*               arbitrary entries, as the unit tests do, concurrently;    *)
(*   SeqSpec   - the same calls made by a single goroutine;                *)
(*   KeySpec   - generateCacheKey applied to requests, as                  *)
(*               TestCacheKeyGeneration does;                              *)
(*   CliSpec   - the command line: the root command or a direct caller     *)
(*               constructing and starting the proxy, one request          *)
(*               goroutine served by it, and the clear-cache command;      *)
(*   TuiSpec   - the proxy started in TUI mode: the dashboard's program,   *)
(*               the start of the server and one request goroutine;        *)
(*               TuiFairSpec is TuiSpec with every goroutine scheduled;    *)
(*   UpdateSpec - model.Update handed any message.                         *)
(*                                                                         *)
(* Time is counted in minutes.  A state with crashed = TRUE is the Go      *)
(* runtime's fatal error on an unsynchronised map access; nothing runs     *)
(* after it.                                                               *)
(***************************************************************************)
EXTENDS Integers, Sequences, FiniteSets, TLC

\* ------------------------------------------------------------- bounds
NumProcs == 2
MaxTime == 10
TestMaxTime == 2

\* ---------------------------------------------------- program constants
ProxyTTL == 5
StatusOK == 200
CacheableFrom == 200
CacheableBelow == 400
MinPort == 1
MaxPort == 65535

\* request/test goroutines, and the dashboard (bubbletea) goroutine
Procs == 1..NumProcs
UI == NumProcs + 1
AllProcs == 1..(NumProcs + 1)

\* ------------------------------------------------------------ http.Header
\* An http.Header: a function from header names to sequences of values.
EmptyHeader == [k \in {} |-> <<>>]

HeaderAdd(h, k, v) ==
    [x \in DOMAIN h \cup {k} |->
        IF x = k THEN (IF k \in DOMAIN h THEN h[k] ELSE <<>>) \o <<v>> ELSE h[x]]

HeaderSet(h, k, v) ==
    [x \in DOMAIN h \cup {k} |-> IF x = k THEN <<v>> ELSE h[x]]

RECURSIVE AddValues(_, _, _)
AddValues(h, k, values) ==
    IF values = <<>> THEN h
    ELSE AddValues(HeaderAdd(h, k, Head(values)), k, Tail(values))

\* for key, values := range src { for _, value := range values { dst.Add(key, value) } }
RECURSIVE CopyHeaderKeys(_, _, _)
CopyHeaderKeys(dst, src, ks) ==
    IF ks = {} THEN dst
    ELSE LET k == CHOOSE x \in ks : TRUE
         IN  CopyHeaderKeys(AddValues(dst, k, src[k]), src, ks \ {k})

CopyHeader(dst, src) == CopyHeaderKeys(dst, src, DOMAIN src)

\* ------------------------------------------------------------- requests
Requests ==
    { [Method |-> "GET", URL |-> "/products", UserAgent |-> "curl"],
      [Method |-> "GET", URL |-> "/users", UserAgent |-> "curl"] }

\* fmt.Sprintf("%s:%s:%s", ...)
Sprintf3(a, b, c) == a \o ":" \o b \o ":" \o c

\* hex.EncodeToString(md5.Sum(data)): the digest of data, taken as collision-free
MD5Hex(data) == <<"md5", data>>

generateCacheKey(req) == MD5Hex(Sprintf3(req.Method, req.URL, req.UserAgent))

Keys == { generateCacheKey(r) : r \in Requests }
NoKey == <<"md5", "">>

NoRequest == [Method |-> "", URL |-> "", UserAgent |-> ""]

\* the requests the key derivation is tried on: URL is what req.URL.String()
\* gives for the request line (path and query; a colon in a path is not
\* escaped), UserAgent what req.Header.Get("User-Agent") gives ("" when the
\* header is absent)
KeyRequests ==
    [Method : {"GET", "POST"},
     URL : {"/test", "/test:8080", "/test?page=2"},
     UserAgent : {"", "test-agent", "8080:test-agent"}]

\* ------------------------------------------------------------- url.Parse
\* A raw URL is a sequence of tokens: ":", "//", "/" and words (runs of
\* letters, digits and dots that start with a letter, or runs of digits
\* after a colon).
Origins ==
    { <<"http", ":", "//", "example.com">>,
      <<"http", ":", "//", "example.com", "/", "api">>,
      <<":", "//", "invalid-url">>,
      <<"example.com">>,
      <<"//", "example.com">>,
      <<"localhost", ":", "8080">>,
      <<"/", "api">>,
      << >> }

IsSlash(t) == t \in {"/", "//"}

RECURSIVE JoinTokens(_)
JoinTokens(ts) == IF ts = <<>> THEN "" ELSE Head(ts) \o JoinTokens(Tail(ts))

\* the tokens before the first slash, and the tokens from it on
RECURSIVE BeforeSlash(_)
BeforeSlash(ts) ==
    IF ts = <<>> \/ IsSlash(Head(ts)) THEN <<>>
    ELSE <<Head(ts)>> \o BeforeSlash(Tail(ts))

RECURSIVE FromSlash(_)
FromSlash(ts) ==
    IF ts = <<>> \/ IsSlash(Head(ts)) THEN ts ELSE FromSlash(Tail(ts))

HasColon(ts) == \E i \in 1..Len(ts) : ts[i] = ":"

NoURL == [Scheme |-> "", Opaque |-> "", Host |-> "", Path |-> ""]

\* getScheme: a colon at the start is an error, a word followed by a colon is
\* the scheme, anything else has no scheme
getScheme(rawURL) ==
    IF rawURL = <<>> THEN [scheme |-> "", rest |-> rawURL, err |-> ""]
    ELSE IF Head(rawURL) = ":"
         THEN [scheme |-> "", rest |-> <<>>, err |-> "missing protocol scheme"]
    ELSE IF ~IsSlash(Head(rawURL)) /\ Len(rawURL) >= 2 /\ rawURL[2] = ":"
         THEN [scheme |-> Head(rawURL), rest |-> SubSeq(rawURL, 3, Len(rawURL)), err |-> ""]
    ELSE [scheme |-> "", rest |-> rawURL, err |-> ""]

\* url.Parse(rawURL): [err, url]; err = "" when the parse succeeds
URLParse(rawURL) ==
    LET s == getScheme(rawURL)
        rest == s.rest
    IN  IF s.err # "" THEN [err |-> s.err, url |-> NoURL]
        ELSE IF rest = <<>> \/ ~IsSlash(Head(rest))
        THEN IF s.scheme # ""
             THEN [err |-> "",
                   url |-> [NoURL EXCEPT !.Scheme = s.scheme, !.Opaque = JoinTokens(rest)]]
             ELSE IF HasColon(BeforeSlash(rest))
             THEN [err |-> "first path segment in URL cannot contain colon", url |-> NoURL]
             ELSE [err |-> "", url |-> [NoURL EXCEPT !.Path = JoinTokens(rest)]]
        ELSE IF Head(rest) = "//" /\ (s.scheme # "" \/ ~(Len(rest) >= 2 /\ rest[2] = "/"))
        THEN [err |-> "",
              url |-> [Scheme |-> s.scheme, Opaque |-> "",
                       Host |-> JoinTokens(BeforeSlash(Tail(rest))),
                       Path |-> JoinTokens(FromSlash(Tail(rest)))]]
        ELSE [err |-> "", url |-> [NoURL EXCEPT !.Scheme = s.scheme, !.Path = JoinTokens(rest)]]

\* (*url.URL).String()
URLString(u) ==
    LET scheme == IF u.Scheme # "" THEN u.Scheme \o ":" ELSE ""
        slashes == IF (u.Scheme # "" \/ u.Host # "") /\ (u.Host # "" \/ u.Path # "")
                   THEN "//" ELSE ""
    IN  IF u.Opaque # "" THEN scheme \o u.Opaque
        ELSE scheme \o slashes \o u.Host \o u.Path

\* what http.Transport needs to send a request: a scheme it knows and a host
OriginUsable(u) == u.Scheme \in {"http", "https"} /\ u.Host # ""

\* ---------------------------------------------------------- ProxyServer
Ports == {0, MinPort, MaxPort, MaxPort + 1}

\* net.Listen on ":0" binds a free port of the system's choice
PickedPorts == { p \in Ports : p >= MinPort /\ p <= MaxPort }

NoServer == [built |-> FALSE, origin |-> NoURL, port |-> 0,
             listening |-> FALSE, bound |-> 0]

\* NewProxyServer(originURL, port): [server, err]
NewProxyServer(originURL, port) ==
    LET parsed == URLParse(originURL)
    IN  IF parsed.err # ""
        THEN [server |-> NoServer, err |-> "invalid origin URL: " \o parsed.err]
        ELSE [server |-> [NoServer EXCEPT !.built = TRUE, !.origin = parsed.url, !.port = port],
              err |-> ""]

\* the proxy of "make run": --port 3000 --origin http://dummyjson.com
RunOrigin == <<"http", ":", "//", "dummyjson.com">>
RunPort == 3000
RunServer ==
    [NewProxyServer(RunOrigin, RunPort).server EXCEPT !.listening = TRUE, !.bound = RunPort]

NoBoot == [pc |-> "init", path |-> "", origin |-> <<>>, port |-> 0, err |-> ""]
Serving == [pc |-> "serving", path |-> "cli", origin |-> RunOrigin, port |-> RunPort, err |-> ""]

\* ------------------------------------------------- what the origin answers
\* A response of the origin as httputil.ReverseProxy writes it: the headers,
\* the status, then the body chunk by chunk.  Failed: the transport failed
\* and the proxy's error handler answers 502.
Responses ==
    { [StatusCode |-> 200, Failed |-> FALSE,
       Headers |-> ("Content-Type" :> <<"text/plain">>),
       Chunks |-> << <<"a", "b">>, <<"c">> >>],
      [StatusCode |-> 301, Failed |-> FALSE,
       Headers |-> ("X-Cache" :> <<"ORIGIN">>) @@ ("Set-Cookie" :> <<"a=1", "b=2">>),
       Chunks |-> << >>],
      [StatusCode |-> 404, Failed |-> FALSE,
       Headers |-> ("Content-Type" :> <<"text/plain">>),
       Chunks |-> << <<"n">> >>],
      [StatusCode |-> 500, Failed |-> FALSE,
       Headers |-> EmptyHeader,
       Chunks |-> << <<"e">> >>],
      [StatusCode |-> 502, Failed |-> TRUE,
       Headers |-> EmptyHeader,
       Chunks |-> << >>] }

NoResponse == [StatusCode |-> 0, Failed |-> FALSE, Headers |-> EmptyHeader, Chunks |-> << >>]

RECURSIVE Concat(_)
Concat(chunks) == IF chunks = <<>> THEN <<>> ELSE Head(chunks) \o Concat(Tail(chunks))

\* ---------------------------------------------------------- CacheEntry
NoEntry == [Body |-> <<>>, Headers |-> EmptyHeader, StatusCode |-> 0,
            Timestamp |-> 0, TTL |-> 0]

\* the entries the unit tests install at time t: one created at t and one
\* created 2 minutes before the clock started, both with a TTL of 1 minute
TestEntries(t) ==
    { [Body |-> <<"t">>, Headers |-> ("Content-Type" :> <<"text/plain">>),
       StatusCode |-> 200, Timestamp |-> t, TTL |-> 1],
      [Body |-> <<"x">>, Headers |-> EmptyHeader,
       StatusCode |-> 301, Timestamp |-> 0 - 2, TTL |-> 1] }

\* ------------------------------------------------- the client's response
\* The real http.ResponseWriter: hdr is the header map handlers may change,
\* sent is the copy of it that went out with the status line.
NewWriter == [hdr |-> EmptyHeader, wrote |-> FALSE, status |-> 0,
              sent |-> EmptyHeader, body |-> <<>>]

RealWriteHeader(rw, code) ==
    IF rw.wrote THEN rw
    ELSE [rw EXCEPT !.wrote = TRUE, !.status = code, !.sent = rw.hdr]

RealWrite(rw, data) ==
    LET committed == RealWriteHeader(rw, StatusOK)
    IN  [committed EXCEPT !.body = @ \o data]

\* ------------------------------------------------------ responseRecorder
\* A recorder with the writer it wraps: [rr |-> fields, rw |-> ResponseWriter].
NoRecorder == [statusCode |-> 0, headers |-> EmptyHeader, body |-> <<>>]

NewRecorder == [statusCode |-> StatusOK, headers |-> EmptyHeader, body |-> <<>>]

RecWriteHeader(s, code) ==
    [rr |-> [s.rr EXCEPT !.statusCode = code],
     rw |-> RealWriteHeader(s.rw, code)]

\* mutant: Write passes the data on without recording it
RecWriteUnrecorded(s, data) == [rr |-> s.rr, rw |-> RealWrite(s.rw, data)]

RecWrite(s, data) ==
    [rr |-> [s.rr EXCEPT !.body = @ \o data],
     rw |-> RealWrite(s.rw, data)]

\* Header() hands out the recorder's own map: what is added to it
RecHeaderAdd(s, src) ==
    [rr |-> [s.rr EXCEPT !.headers = CopyHeader(@, src)],
     rw |-> s.rw]

RECURSIVE WriteChunks(_, _)
WriteChunks(s, chunks) ==
    IF chunks = <<>> THEN s
    ELSE WriteChunks(RecWrite(s, Head(chunks)), Tail(chunks))

\* mutant: a failed forward writes nothing to the recorder
ServeHTTPSilent(s, r) ==
    IF r.Failed THEN s
    ELSE WriteChunks(RecWriteHeader(RecHeaderAdd(s, r.Headers), r.StatusCode), r.Chunks)

\* proxy.ServeHTTP(recorder, req) for the origin's answer r
ServeHTTP(s, r) ==
    IF r.Failed THEN RecWriteHeader(s, r.StatusCode)
    ELSE WriteChunks(RecWriteHeader(RecHeaderAdd(s, r.Headers), r.StatusCode), r.Chunks)

\* ------------------------------------------------- the dashboard's model
\* the request history keeps this many entries
HistoryCap == 100

\* the n-th request log a test hands to Update: a RequestLog, told apart by
\* its Timestamp; every second one is a cache hit
LogEntry(n) ==
    [Method |-> "GET", Path |-> "/products", Status |-> "200",
     CacheHit |-> (n % 2 = 0), Timestamp |-> n, ResponseTime |-> 0]

\* the sizes a terminal window is resized to, as <<width, height>>
WindowSizes == {<<80, 24>>, <<120, 40>>}

\* the keys pressed, "c" apart; "x" is bound to nothing
PressedKeys == {"q", "ctrl+c", "up", "k", "down", "j", "r", "x"}

\* NewModel(port, origin); server: whether m.server is set
NewModel(port, origin) ==
    [server |-> FALSE, port |-> port, origin |-> origin, status |-> "Starting...",
     cacheSize |-> 0, requests |-> <<>>, selected |-> 0, quitting |-> FALSE,
     width |-> 80, height |-> 24]

\* Update on tea.KeyMsg for every key but "c"; "r" only re-arms the timer
UpdateKey(mm, k) ==
    CASE k \in {"q", "ctrl+c"} -> [mm EXCEPT !.quitting = TRUE]
      [] k \in {"up", "k"} ->
            IF mm.selected > 0 THEN [mm EXCEPT !.selected = @ - 1] ELSE mm
      [] k \in {"down", "j"} ->
            IF mm.selected < Len(mm.requests) - 1
            THEN [mm EXCEPT !.selected = @ + 1] ELSE mm
      [] OTHER -> mm

\* Update on tea.WindowSizeMsg
UpdateWindowSize(mm, width, height) ==
    [mm EXCEPT !.width = width, !.height = height]

\* Update on serverStartedMsg
UpdateServerStarted(mm) == [mm EXCEPT !.server = TRUE, !.status = "Running"]

\* Update on serverErrorMsg
UpdateServerError(mm, err) == [mm EXCEPT !.status = "Error: " \o err]

\* Update on cacheUpdateMsg
UpdateCacheUpdate(mm, n) == [mm EXCEPT !.cacheSize = n]

\* mutant: the history is never cut
UpdateRequestLogUncut(mm, request) ==
    LET appended == Append(mm.requests, request)
    IN  [mm EXCEPT !.requests = appended,
                   !.selected = IF @ >= Len(appended) THEN Len(appended) - 1 ELSE @]

\* Update on requestLogMsg: append, drop the oldest entry beyond the cap,
\* pull the selection back into the history
UpdateRequestLog(mm, request) ==
    LET appended == Append(mm.requests, request)
        kept == IF Len(appended) > HistoryCap THEN Tail(appended) ELSE appended
    IN  [mm EXCEPT !.requests = kept,
                   !.selected = IF @ >= Len(kept) THEN Len(kept) - 1 ELSE @]

\* the dashboard of a proxy started as "make run-tui" starts it, once the
\* server has reported in
RunModel == UpdateServerStarted(NewModel(RunPort, RunOrigin))

VARIABLES
    entries,    \* Cache.entries: a function from the stored keys to entries
    readers,    \* goroutines holding Cache.mutex for reading
    writers,    \* goroutines holding Cache.mutex for writing (at most one)
    now,        \* the clock
    crashed,    \* the runtime stopped the process (fatal error)
    pc,         \* where each goroutine is
    key,        \* the key of the call or request in progress
    arg,        \* the entry a Set in progress installs
    got,        \* what the last Get returned: [hit, entry]
    size,       \* what the last Size returned
    rec,        \* the responseRecorder of the request in progress
    w,          \* the client-facing response of the request in progress
    upstream,   \* the answer the origin gave to the request in progress
    contacted,  \* how often the origin was contacted for the request in progress
    req,        \* the request in progress: [Method, URL, UserAgent]
    server,     \* the ProxyServer: its origin, its port, whether it listens
    boot,       \* the process that starts the proxy: where it is, its arguments
    cmd,        \* the clear-cache command, run as a process of its own
    mu,         \* goroutines holding ProxyServer.mu, the log mutex (at most one)
    model,      \* the dashboard's model
    prog        \* the dashboard's program: "off", "running" or "quit"

vars == <<entries, readers, writers, now, crashed, pc, key, arg, got, size,
          rec, w, upstream, contacted, req, server, boot, cmd, mu, model, prog>>

cacheVars == <<entries, readers, writers>>
callVars == <<key, arg, got, size>>
reqVars == <<rec, w, upstream, contacted, req>>
tuiVars == <<model, prog>>
sysVars == <<server, boot, cmd, mu, tuiVars>>

Miss == [hit |-> FALSE, entry |-> NoEntry]

\* the clear-cache command before it runs: it has no cache and has printed
\* nothing
NoCommand == [made |-> FALSE, entries |-> [k \in {} |-> NoEntry], out |-> ""]

\* the cache and the goroutines before any call or request
StoreInit ==
    /\ entries = [k \in {} |-> NoEntry]
    /\ readers = {}
    /\ writers = {}
    /\ now = 0
    /\ crashed = FALSE
    /\ pc = [g \in AllProcs |-> "idle"]
    /\ key = [g \in AllProcs |-> NoKey]
    /\ arg = [g \in AllProcs |-> NoEntry]
    /\ got = [g \in AllProcs |-> Miss]
    /\ size = [g \in AllProcs |-> 0]
    /\ rec = [g \in AllProcs |-> NoRecorder]
    /\ w = [g \in AllProcs |-> NewWriter]
    /\ upstream = [g \in AllProcs |-> NoResponse]
    /\ contacted = [g \in AllProcs |-> 0]
    /\ req = [g \in AllProcs |-> NoRequest]
    /\ cmd = NoCommand
    /\ mu = {}

\* the proxy is running, started as "make run" starts it
Init ==
    /\ StoreInit
    /\ server = RunServer
    /\ boot = Serving
    /\ model = RunModel
    /\ prog = "running"

\* ------------------------------------------------------------ the map
\* mutant: a Set that installs nothing
MapSetLost(m, k, e) == m

\* mutant: a Set that keeps the headers of the entry it replaces
MapSetMerge(m, k, e) ==
    [x \in DOMAIN m \cup {k} |->
        IF x = k
        THEN (IF k \in DOMAIN m THEN [e EXCEPT !.Headers = CopyHeader(@, m[k].Headers)] ELSE e)
        ELSE m[x]]

MapSet(m, k, e) == [x \in DOMAIN m \cup {k} |-> IF x = k THEN e ELSE m[x]]

\* mutant: a delete that removes nothing
MapDeleteNone(m, k) == m

\* mutant: a delete that sweeps the other keys too
MapDeleteSweep(m, k) == [x \in {} |-> m[x]]

MapDelete(m, k) == [x \in DOMAIN m \ {k} |-> m[x]]

EmptyMap == [k \in {} |-> NoEntry]

\* mutant: no entry ever counts as stale
IsStaleNever(entry, t) == FALSE

\* mutant: an entry whose age equals its TTL counts as stale
IsStaleAtTTL(entry, t) == t - entry.Timestamp >= entry.TTL

\* time.Since(entry.Timestamp) > entry.TTL
IsStale(entry, t) == t - entry.Timestamp > entry.TTL

\* A goroutine other than g holds the read lock and is about to read or
\* write the map: its access can overlap a map write by g.
MapAccessPcs == {"get_lookup", "get_delete", "size_read"}

Racing(g) == \E h \in readers \ {g} : pc[h] \in MapAccessPcs

\* Cache.mutex is a sync.RWMutex: any number of readers or one writer.  (A
\* waiting writer also holds back new readers; that narrows the schedules and
\* is left out.)
\* ------------------------------------------------------------ Cache.Get
GetRLock(g) ==
    /\ ~crashed
    /\ pc[g] = "get_rlock"
    /\ writers = {}
    /\ readers' = readers \cup {g}
    /\ pc' = [pc EXCEPT ![g] = "get_lookup"]
    /\ UNCHANGED <<entries, writers, now, crashed, callVars, reqVars, sysVars>>

GetLookup(g) ==
    /\ ~crashed
    /\ pc[g] = "get_lookup"
    /\ IF key[g] \notin DOMAIN entries
       THEN /\ got' = [got EXCEPT ![g] = Miss]
            /\ pc' = [pc EXCEPT ![g] = "get_runlock"]
       ELSE IF IsStale(entries[key[g]], now)
            THEN /\ got' = [got EXCEPT ![g] = Miss]
                 /\ pc' = [pc EXCEPT ![g] = "get_delete"]
            ELSE /\ got' = [got EXCEPT ![g] = [hit |-> TRUE, entry |-> entries[key[g]]]]
                 /\ pc' = [pc EXCEPT ![g] = "get_runlock"]
    /\ UNCHANGED <<cacheVars, now, crashed, key, arg, size, reqVars, sysVars>>

\* delete(c.entries, key) under the read lock: with another reader at the map
\* the runtime may stop the process ("concurrent map writes", "concurrent map
\* read and map write")
GetDelete(g) ==
    /\ ~crashed
    /\ pc[g] = "get_delete"
    /\ \E fatal \in (IF Racing(g) THEN BOOLEAN ELSE {FALSE}) :
         /\ crashed' = fatal
         /\ IF fatal
            THEN UNCHANGED <<entries, pc>>
            ELSE /\ entries' = MapDelete(entries, key[g])
                 /\ pc' = [pc EXCEPT ![g] = "get_runlock"]
    /\ UNCHANGED <<readers, writers, now, callVars, reqVars, sysVars>>

\* ------------------------------------------------------------ Cache.Set
SetLock(g) ==
    /\ ~crashed
    /\ pc[g] = "set_lock"
    /\ readers = {}
    /\ writers = {}
    /\ writers' = {g}
    /\ pc' = [pc EXCEPT ![g] = "set_store"]
    /\ UNCHANGED <<entries, readers, now, crashed, callVars, reqVars, sysVars>>

SetStore(g) ==
    /\ ~crashed
    /\ pc[g] = "set_store"
    /\ entries' = MapSet(entries, key[g], arg[g])
    /\ pc' = [pc EXCEPT ![g] = "set_unlock"]
    /\ UNCHANGED <<readers, writers, now, crashed, callVars, reqVars, sysVars>>

\* ---------------------------------------------------------- Cache.Clear
ClearLock(g) ==
    /\ ~crashed
    /\ pc[g] = "clear_lock"
    /\ readers = {}
    /\ writers = {}
    /\ writers' = {g}
    /\ pc' = [pc EXCEPT ![g] = "clear_store"]
    /\ UNCHANGED <<entries, readers, now, crashed, callVars, reqVars, sysVars>>

\* mutant: a Clear that leaves the map as it is
ClearStoreNothing(g) ==
    /\ ~crashed
    /\ pc[g] = "clear_store"
    /\ pc' = [pc EXCEPT ![g] = "clear_unlock"]
    /\ UNCHANGED <<entries, readers, writers, now, crashed, callVars, reqVars, sysVars>>

ClearStore(g) ==
    /\ ~crashed
    /\ pc[g] = "clear_store"
    /\ entries' = EmptyMap
    /\ pc' = [pc EXCEPT ![g] = "clear_unlock"]
    /\ UNCHANGED <<readers, writers, now, crashed, callVars, reqVars, sysVars>>

ClearReturn(g) ==
    /\ ~crashed
    /\ pc[g] = "clear_unlock"
    /\ writers' = writers \ {g}
    /\ pc' = [pc EXCEPT ![g] = "idle"]
    /\ UNCHANGED <<entries, readers, now, crashed, reqVars, sysVars>>
    /\ key' = [key EXCEPT ![g] = NoKey]
    /\ arg' = [arg EXCEPT ![g] = NoEntry]
    /\ got' = [got EXCEPT ![g] = Miss]
    /\ size' = [size EXCEPT ![g] = 0]

\* ----------------------------------------------------------- Cache.Size
SizeRLock(g) ==
    /\ ~crashed
    /\ pc[g] = "size_rlock"
    /\ writers = {}
    /\ readers' = readers \cup {g}
    /\ pc' = [pc EXCEPT ![g] = "size_read"]
    /\ UNCHANGED <<entries, writers, now, crashed, callVars, reqVars, sysVars>>

\* mutant: a Size that counts only the entries still within their TTL
SizeReadFresh(g) ==
    /\ ~crashed
    /\ pc[g] = "size_read"
    /\ size' = [size EXCEPT ![g] =
                    Cardinality({k \in DOMAIN entries : ~IsStale(entries[k], now)})]
    /\ pc' = [pc EXCEPT ![g] = "size_runlock"]
    /\ UNCHANGED <<cacheVars, now, crashed, key, arg, got, reqVars, sysVars>>

SizeRead(g) ==
    /\ ~crashed
    /\ pc[g] = "size_read"
    /\ size' = [size EXCEPT ![g] = Cardinality(DOMAIN entries)]
    /\ pc' = [pc EXCEPT ![g] = "size_runlock"]
    /\ UNCHANGED <<cacheVars, now, crashed, key, arg, got, reqVars, sysVars>>

SizeReturn(g) ==
    /\ ~crashed
    /\ pc[g] = "size_runlock"
    /\ readers' = readers \ {g}
    /\ pc' = [pc EXCEPT ![g] = "idle"]
    /\ UNCHANGED <<entries, writers, now, crashed, reqVars, sysVars>>
    /\ key' = [key EXCEPT ![g] = NoKey]
    /\ arg' = [arg EXCEPT ![g] = NoEntry]
    /\ got' = [got EXCEPT ![g] = Miss]
    /\ size' = [size EXCEPT ![g] = 0]

\* ---------------------------------------------------------------- clock
\* the clock advances by step minutes, up to limit
Tick(step, limit) ==
    /\ ~crashed
    /\ now + step <= limit
    /\ now' = now + step
    /\ UNCHANGED <<cacheVars, crashed, pc, callVars, reqVars, sysVars>>

\* ------------------------------------- callers of the Cache (unit tests)
CallGet(g, k) ==
    /\ ~crashed
    /\ pc[g] = "idle"
    /\ key' = [key EXCEPT ![g] = k]
    /\ pc' = [pc EXCEPT ![g] = "get_rlock"]
    /\ UNCHANGED <<cacheVars, now, crashed, arg, got, size, reqVars, sysVars>>

GetReturn(g) ==
    /\ ~crashed
    /\ pc[g] = "get_runlock"
    /\ readers' = readers \ {g}
    /\ pc' = [pc EXCEPT ![g] = "idle"]
    /\ UNCHANGED <<entries, writers, now, crashed, reqVars, sysVars>>
    /\ key' = [key EXCEPT ![g] = NoKey]
    /\ arg' = [arg EXCEPT ![g] = NoEntry]
    /\ got' = [got EXCEPT ![g] = Miss]
    /\ size' = [size EXCEPT ![g] = 0]

CallSet(g, k, e) ==
    /\ ~crashed
    /\ pc[g] = "idle"
    /\ key' = [key EXCEPT ![g] = k]
    /\ arg' = [arg EXCEPT ![g] = e]
    /\ pc' = [pc EXCEPT ![g] = "set_lock"]
    /\ UNCHANGED <<cacheVars, now, crashed, got, size, reqVars, sysVars>>

SetReturn(g) ==
    /\ ~crashed
    /\ pc[g] = "set_unlock"
    /\ writers' = writers \ {g}
    /\ pc' = [pc EXCEPT ![g] = "idle"]
    /\ UNCHANGED <<entries, readers, now, crashed, reqVars, sysVars>>
    /\ key' = [key EXCEPT ![g] = NoKey]
    /\ arg' = [arg EXCEPT ![g] = NoEntry]
    /\ got' = [got EXCEPT ![g] = Miss]
    /\ size' = [size EXCEPT ![g] = 0]

CallClear(g) ==
    /\ ~crashed
    /\ pc[g] = "idle"
    /\ pc' = [pc EXCEPT ![g] = "clear_lock"]
    /\ UNCHANGED <<cacheVars, now, crashed, callVars, reqVars, sysVars>>

CallSize(g) ==
    /\ ~crashed
    /\ pc[g] = "idle"
    /\ pc' = [pc EXCEPT ![g] = "size_rlock"]
    /\ UNCHANGED <<cacheVars, now, crashed, callVars, reqVars, sysVars>>

CacheStep(g) ==
    \/ \E k \in Keys : CallGet(g, k)
    \/ \E k \in Keys, e \in TestEntries(now) : CallSet(g, k, e)
    \/ CallClear(g)
    \/ CallSize(g)
    \/ GetRLock(g)
    \/ GetLookup(g)
    \/ GetDelete(g)
    \/ GetReturn(g)
    \/ SetLock(g)
    \/ SetStore(g)
    \/ SetReturn(g)
    \/ ClearLock(g)
    \/ ClearStore(g)
    \/ ClearReturn(g)
    \/ SizeRLock(g)
    \/ SizeRead(g)
    \/ SizeReturn(g)

CacheNext == Tick(1, TestMaxTime) \/ \E g \in Procs : CacheStep(g)

CacheSpec == Init /\ [][CacheNext]_vars

\* the single goroutine that runs the unit tests
TestProc == CHOOSE g \in Procs : TRUE

SeqNext == Tick(1, TestMaxTime) \/ CacheStep(TestProc)

SeqSpec == Init /\ [][SeqNext]_vars

\* ------------------------------------------ ProxyServer.handleRequest
\* mutant: the body is written before the status
ReplayHitBodyFirst(rw, e) ==
    LET copied == [rw EXCEPT !.hdr = CopyHeader(@, e.Headers)]
        marked == [copied EXCEPT !.hdr = HeaderSet(@, "X-Cache", "HIT")]
    IN  RealWriteHeader(RealWrite(marked, e.Body), e.StatusCode)

\* the hit path: the entry's headers, X-Cache: HIT, the status, the body
ReplayHit(rw, e) ==
    LET copied == [rw EXCEPT !.hdr = CopyHeader(@, e.Headers)]
        marked == [copied EXCEPT !.hdr = HeaderSet(@, "X-Cache", "HIT")]
    IN  RealWrite(RealWriteHeader(marked, e.StatusCode), e.Body)

\* mutant: the upper limit of the cacheable range is missing
CacheableNoLimit(statusCode) == statusCode >= CacheableFrom

\* recorder.statusCode >= 200 && recorder.statusCode < 400
Cacheable(statusCode) == statusCode >= CacheableFrom /\ statusCode < CacheableBelow

\* mutant: the entry is given a TTL of an hour
NewCacheEntryHour(rr, t) ==
    [Body |-> rr.body, Headers |-> rr.headers, StatusCode |-> rr.statusCode,
     Timestamp |-> t, TTL |-> 60]

\* the CacheEntry built from the recorder at time t
NewCacheEntry(rr, t) ==
    [Body |-> rr.body, Headers |-> rr.headers, StatusCode |-> rr.statusCode,
     Timestamp |-> t, TTL |-> ProxyTTL]

\* w.Header().Set("X-Cache", "MISS") after the forward
MarkMiss(rw) == [rw EXCEPT !.hdr = HeaderSet(@, "X-Cache", "MISS")]

\* a request arrives: the key is derived and Cache.Get is called
Begin(g, r) ==
    /\ ~crashed
    /\ server.listening
    /\ pc[g] = "idle"
    /\ req' = [req EXCEPT ![g] = r]
    /\ key' = [key EXCEPT ![g] = generateCacheKey(r)]
    /\ pc' = [pc EXCEPT ![g] = "get_rlock"]
    /\ UNCHANGED <<cacheVars, now, crashed, arg, got, size, rec, w, upstream, contacted, sysVars>>

\* Cache.Get returns: on a hit the entry is replayed; on a hit and on a miss
\* the handler then calls logRequest
Dispatch(g) ==
    /\ ~crashed
    /\ pc[g] = "get_runlock"
    /\ readers' = readers \ {g}
    /\ w' = [w EXCEPT ![g] = IF got[g].hit THEN ReplayHit(@, got[g].entry) ELSE @]
    /\ pc' = [pc EXCEPT ![g] = "log_lock"]
    /\ UNCHANGED <<entries, writers, now, crashed, callVars, rec, upstream, contacted, req, sysVars>>

\* logRequest: ps.mu.Lock()
LogLock(g) ==
    /\ ~crashed
    /\ pc[g] = "log_lock"
    /\ mu = {}
    /\ mu' = {g}
    /\ pc' = [pc EXCEPT ![g] = "log_unlock"]
    /\ UNCHANGED <<cacheVars, now, crashed, callVars, reqVars, server, boot, cmd, tuiVars>>

\* mutant: the log mutex is kept until the handler returns
LogUnlockKept(g) ==
    /\ ~crashed
    /\ pc[g] = "log_unlock"
    /\ mu' = IF got[g].hit THEN mu \ {g} ELSE mu
    /\ IF got[g].hit
       THEN /\ pc' = [pc EXCEPT ![g] = "done"]
            /\ UNCHANGED <<rec, contacted>>
       ELSE /\ rec' = [rec EXCEPT ![g] = NewRecorder]
            /\ contacted' = [contacted EXCEPT ![g] = @ + 1]
            /\ pc' = [pc EXCEPT ![g] = "forwarding"]
    /\ UNCHANGED <<cacheVars, now, crashed, callVars, w, upstream, req, server, boot, cmd, tuiVars>>

\* logRequest: the line is written to the process log and ps.mu is released
\* (the deferred Unlock); nothing is sent to the dashboard.  On a hit the
\* handler returns, on a miss the request goes to the origin through a new
\* recorder.
LogUnlock(g) ==
    /\ ~crashed
    /\ pc[g] = "log_unlock"
    /\ mu' = mu \ {g}
    /\ IF got[g].hit
       THEN /\ pc' = [pc EXCEPT ![g] = "done"]
            /\ UNCHANGED <<rec, contacted>>
       ELSE /\ rec' = [rec EXCEPT ![g] = NewRecorder]
            /\ contacted' = [contacted EXCEPT ![g] = @ + 1]
            /\ pc' = [pc EXCEPT ![g] = "forwarding"]
    /\ UNCHANGED <<cacheVars, now, crashed, callVars, w, upstream, req, server, boot, cmd, tuiVars>>

\* proxy.ServeHTTP returns after writing the origin's answer r through the
\* recorder; a cacheable status builds the entry and calls Cache.Set, any
\* other status sets the miss header and returns
Forward(g, r) ==
    /\ ~crashed
    /\ pc[g] = "forwarding"
    /\ OriginUsable(server.origin) \/ r.Failed
    /\ LET s == ServeHTTP([rr |-> rec[g], rw |-> w[g]], r)
       IN  /\ rec' = [rec EXCEPT ![g] = s.rr]
           /\ upstream' = [upstream EXCEPT ![g] = r]
           /\ IF Cacheable(s.rr.statusCode)
              THEN /\ arg' = [arg EXCEPT ![g] = NewCacheEntry(s.rr, now)]
                   /\ w' = [w EXCEPT ![g] = s.rw]
                   /\ pc' = [pc EXCEPT ![g] = "set_lock"]
              ELSE /\ w' = [w EXCEPT ![g] = MarkMiss(s.rw)]
                   /\ pc' = [pc EXCEPT ![g] = "done"]
                   /\ UNCHANGED arg
    /\ UNCHANGED <<cacheVars, now, crashed, key, got, size, contacted, req, sysVars>>

\* the answer r as far as it got when the copy of the body failed: the
\* headers, the status and the first n chunks went through the recorder;
\* lost: the next chunk was recorded but its write to the client failed
ServeHTTPUntil(s, r, n, lost) ==
    LET sent == WriteChunks(RecWriteHeader(RecHeaderAdd(s, r.Headers), r.StatusCode),
                            SubSeq(r.Chunks, 1, n))
    IN  IF lost
        THEN [rr |-> [sent.rr EXCEPT !.body = @ \o r.Chunks[n + 1]], rw |-> sent.rw]
        ELSE sent

\* mutant: a failed copy makes ServeHTTP return, and the handler goes on
ForwardAbortReturns(g, r, n, lost) ==
    /\ ~crashed
    /\ pc[g] = "forwarding"
    /\ OriginUsable(server.origin)
    /\ ~r.Failed
    /\ n < Len(r.Chunks)
    /\ LET s == ServeHTTPUntil([rr |-> rec[g], rw |-> w[g]], r, n, lost)
       IN  /\ rec' = [rec EXCEPT ![g] = s.rr]
           /\ upstream' = [upstream EXCEPT ![g] = r]
           /\ IF Cacheable(s.rr.statusCode)
              THEN /\ arg' = [arg EXCEPT ![g] = NewCacheEntry(s.rr, now)]
                   /\ w' = [w EXCEPT ![g] = s.rw]
                   /\ pc' = [pc EXCEPT ![g] = "set_lock"]
              ELSE /\ w' = [w EXCEPT ![g] = MarkMiss(s.rw)]
                   /\ pc' = [pc EXCEPT ![g] = "done"]
                   /\ UNCHANGED arg
    /\ UNCHANGED <<cacheVars, now, crashed, key, got, size, contacted, req, sysVars>>

\* the copy of the body of answer r fails after n chunks (the client went
\* away, the origin's connection broke): inside a server ReverseProxy panics
\* with http.ErrAbortHandler, which unwinds handleRequest past the status
\* check, Cache.Set and the miss header
ForwardAbort(g, r, n, lost) ==
    /\ ~crashed
    /\ pc[g] = "forwarding"
    /\ OriginUsable(server.origin)
    /\ ~r.Failed
    /\ n < Len(r.Chunks)
    /\ LET s == ServeHTTPUntil([rr |-> rec[g], rw |-> w[g]], r, n, lost)
       IN  /\ rec' = [rec EXCEPT ![g] = s.rr]
           /\ w' = [w EXCEPT ![g] = s.rw]
           /\ upstream' = [upstream EXCEPT ![g] = r]
           /\ pc' = [pc EXCEPT ![g] = "aborted"]
    /\ UNCHANGED <<cacheVars, now, crashed, callVars, contacted, req, sysVars>>

\* net/http recovers the panic and closes the connection; the goroutine is
\* free for the next request
ConnClosed(g) ==
    /\ ~crashed
    /\ pc[g] = "aborted"
    /\ pc' = [pc EXCEPT ![g] = "idle"]
    /\ key' = [key EXCEPT ![g] = NoKey]
    /\ arg' = [arg EXCEPT ![g] = NoEntry]
    /\ got' = [got EXCEPT ![g] = Miss]
    /\ rec' = [rec EXCEPT ![g] = NoRecorder]
    /\ w' = [w EXCEPT ![g] = NewWriter]
    /\ upstream' = [upstream EXCEPT ![g] = NoResponse]
    /\ contacted' = [contacted EXCEPT ![g] = 0]
    /\ req' = [req EXCEPT ![g] = NoRequest]
    /\ UNCHANGED <<cacheVars, now, crashed, size, sysVars>>

\* Cache.Set returns: the miss header is set and the handler returns
FinishMiss(g) ==
    /\ ~crashed
    /\ pc[g] = "set_unlock"
    /\ writers' = writers \ {g}
    /\ w' = [w EXCEPT ![g] = MarkMiss(w[g])]
    /\ pc' = [pc EXCEPT ![g] = "done"]
    /\ UNCHANGED <<entries, readers, now, crashed, callVars, rec, upstream, contacted, req, sysVars>>

\* the response is complete; the goroutine is free for the next request
Finish(g) ==
    /\ ~crashed
    /\ pc[g] = "done"
    /\ pc' = [pc EXCEPT ![g] = "idle"]
    /\ key' = [key EXCEPT ![g] = NoKey]
    /\ arg' = [arg EXCEPT ![g] = NoEntry]
    /\ got' = [got EXCEPT ![g] = Miss]
    /\ rec' = [rec EXCEPT ![g] = NoRecorder]
    /\ w' = [w EXCEPT ![g] = NewWriter]
    /\ upstream' = [upstream EXCEPT ![g] = NoResponse]
    /\ contacted' = [contacted EXCEPT ![g] = 0]
    /\ req' = [req EXCEPT ![g] = NoRequest]
    /\ UNCHANGED <<cacheVars, now, crashed, size, sysVars>>

HandleStep(g) ==
    \/ \E r \in Requests : Begin(g, r)
    \/ GetRLock(g)
    \/ GetLookup(g)
    \/ GetDelete(g)
    \/ Dispatch(g)
    \/ LogLock(g)
    \/ LogUnlock(g)
    \/ \E r \in Responses : Forward(g, r)
    \/ \E r \in Responses : \E n \in 0..(Len(r.Chunks) - 1), lost \in BOOLEAN :
           ForwardAbort(g, r, n, lost)
    \/ ConnClosed(g)
    \/ SetLock(g)
    \/ SetStore(g)
    \/ FinishMiss(g)
    \/ Finish(g)

\* --------------------------------------------------- the dashboard
\* The program's event loop hands one message at a time to model.Update; it
\* is goroutine UI.
\* a key other than "c": "q" and ctrl+c end the program, and the process
\* with it
KeyMsg(k) ==
    /\ prog = "running"
    /\ pc[UI] = "idle"
    /\ model' = UpdateKey(model, k)
    /\ IF k \in {"q", "ctrl+c"}
       THEN prog' = "quit" /\ server' = [server EXCEPT !.listening = FALSE]
       ELSE UNCHANGED <<prog, server>>
    /\ UNCHANGED <<cacheVars, now, crashed, pc, callVars, reqVars, boot, cmd, mu>>

\* the "c" key with a server: Update calls m.server.cache.Clear() (without a
\* server the key does nothing)
KeyC ==
    /\ prog = "running"
    /\ model.server
    /\ CallClear(UI)

\* Clear has returned: m.cacheSize = 0, and Update returns
KeyCReturn ==
    /\ ~crashed
    /\ pc[UI] = "clear_unlock"
    /\ writers' = writers \ {UI}
    /\ pc' = [pc EXCEPT ![UI] = "idle"]
    /\ model' = [model EXCEPT !.cacheSize = 0]
    /\ UNCHANGED <<entries, readers, now, crashed, callVars, reqVars, server, boot, cmd, mu, prog>>

\* the terminal is resized
WindowSizeMsg(width, height) ==
    /\ prog = "running"
    /\ pc[UI] = "idle"
    /\ model' = UpdateWindowSize(model, width, height)
    /\ UNCHANGED <<cacheVars, now, crashed, pc, callVars, reqVars, server, boot, cmd, mu, prog>>

\* startServer got a server from NewProxyServer: it reports serverStartedMsg,
\* whatever became of proxy.Start()
ServerStartedMsg ==
    /\ prog = "running"
    /\ pc[UI] = "idle"
    /\ boot.path = "tui"
    /\ server.built
    /\ ~model.server
    /\ model' = UpdateServerStarted(model)
    /\ UNCHANGED <<cacheVars, now, crashed, pc, callVars, reqVars, server, boot, cmd, mu, prog>>

\* startServer got an error from NewProxyServer: serverErrorMsg, and Update
\* ends the program
ServerErrorMsg ==
    /\ prog = "running"
    /\ pc[UI] = "idle"
    /\ boot.path = "tui"
    /\ boot.pc = "exit"
    /\ ~server.built
    /\ model' = UpdateServerError(model, boot.err)
    /\ prog' = "quit"
    /\ UNCHANGED <<cacheVars, now, crashed, pc, callVars, reqVars, server, boot, cmd, mu>>

\* the timer started by serverStartedMsg fires every second: Update re-arms
\* it and changes nothing
TickMsg ==
    /\ prog = "running"
    /\ pc[UI] = "idle"
    /\ model.server
    /\ UNCHANGED vars

\* a cacheUpdateMsg handed to Update (nothing in the program sends one)
CacheUpdateMsg(n) ==
    /\ prog = "running"
    /\ pc[UI] = "idle"
    /\ model' = UpdateCacheUpdate(model, n)
    /\ UNCHANGED <<cacheVars, now, crashed, pc, callVars, reqVars, server, boot, cmd, mu, prog>>

\* a requestLogMsg handed to Update (nothing in the program sends one)
RequestLogMsg(request) ==
    /\ prog = "running"
    /\ pc[UI] = "idle"
    /\ model' = UpdateRequestLog(model, request)
    /\ UNCHANGED <<cacheVars, now, crashed, pc, callVars, reqVars, server, boot, cmd, mu, prog>>

\* the dashboard's "c" key: m.server.cache.Clear()
UIStep ==
    \/ KeyC
    \/ ClearLock(UI)
    \/ ClearStore(UI)
    \/ KeyCReturn

Next == Tick(ProxyTTL, MaxTime) \/ UIStep \/ \E g \in Procs : HandleStep(g)

Spec == Init /\ [][Next]_vars

\* -------------------------------------------------- generateCacheKey alone
\* TestCacheKeyGeneration: the key of a request is derived, and compared
CallGenerateKey(g, r) ==
    /\ pc[g] = "idle"
    /\ req' = [req EXCEPT ![g] = r]
    /\ key' = [key EXCEPT ![g] = generateCacheKey(r)]
    /\ pc' = [pc EXCEPT ![g] = "keyed"]
    /\ UNCHANGED <<cacheVars, now, crashed, arg, got, size, rec, w, upstream, contacted, sysVars>>

KeyReturn(g) ==
    /\ pc[g] = "keyed"
    /\ req' = [req EXCEPT ![g] = NoRequest]
    /\ key' = [key EXCEPT ![g] = NoKey]
    /\ pc' = [pc EXCEPT ![g] = "idle"]
    /\ UNCHANGED <<cacheVars, now, crashed, arg, got, size, rec, w, upstream, contacted, sysVars>>

KeyNext ==
    \E g \in Procs :
        \/ \E r \in KeyRequests : CallGenerateKey(g, r)
        \/ KeyReturn(g)

KeySpec == Init /\ [][KeyNext]_vars

\* ------------------------------------------------------ the command line
\* rootCmd.RunE with the flags --origin o, --port p and --tui t
RunE(o, p, t) ==
    /\ boot.pc = "init"
    /\ boot' = IF o = <<>>
               THEN [boot EXCEPT !.pc = "exit", !.err = "origin URL is required"]
               ELSE IF p <= 0 \/ p > MaxPort
               THEN [boot EXCEPT !.pc = "exit", !.err = "port must be between 1 and 65535"]
               ELSE [pc |-> "construct", path |-> (IF t THEN "tui" ELSE "cli"),
                     origin |-> o, port |-> p, err |-> ""]
    /\ UNCHANGED <<cacheVars, now, crashed, pc, callVars, reqVars, server, cmd, mu, tuiVars>>

\* NewProxyServer called as the unit tests and startServer call it, with
\* whatever arguments the caller has
DirectCall(o, p) ==
    /\ boot.pc = "init"
    /\ boot' = [pc |-> "construct", path |-> "direct", origin |-> o, port |-> p, err |-> ""]
    /\ UNCHANGED <<cacheVars, now, crashed, pc, callVars, reqVars, server, cmd, mu, tuiVars>>

\* NewProxyServer(origin, port) returns: an error ends the start (RunE returns
\* it, startServer reports serverErrorMsg), a server goes on to Start
Construct ==
    /\ boot.pc = "construct"
    /\ LET made == NewProxyServer(boot.origin, boot.port)
       IN  IF made.err # ""
           THEN /\ boot' = [boot EXCEPT !.pc = "exit", !.err = made.err]
                /\ UNCHANGED <<server, entries>>
           ELSE /\ boot' = [boot EXCEPT !.pc = "start"]
                /\ server' = made.server
                /\ entries' = EmptyMap
    /\ UNCHANGED <<readers, writers, now, crashed, pc, callVars, reqVars, cmd, mu, tuiVars>>

\* proxy.Start(): http.ListenAndServe(":port") fails on a port that is no
\* port number, binds a port of the system's choice for port 0, and binds
\* the port otherwise
Start ==
    /\ boot.pc = "start"
    /\ IF server.port < 0 \/ server.port > MaxPort
       THEN /\ boot' = [boot EXCEPT !.pc = "exit", !.err = "listen tcp: invalid port"]
            /\ UNCHANGED server
       ELSE /\ boot' = [boot EXCEPT !.pc = "serving"]
            /\ \E b \in (IF server.port = 0 THEN PickedPorts ELSE {server.port}) :
                   server' = [server EXCEPT !.listening = TRUE, !.bound = b]
    /\ UNCHANGED <<cacheVars, now, crashed, pc, callVars, reqVars, cmd, mu, tuiVars>>

\* clearCmd.Run: the command makes a cache of its own, clears it and reports
\* success
ClearCommand ==
    /\ ~cmd.made
    /\ cmd' = [made |-> TRUE, entries |-> EmptyMap, out |-> "Cache cleared successfully"]
    /\ UNCHANGED <<cacheVars, now, crashed, pc, callVars, reqVars, server, boot, mu, tuiVars>>

\* nothing has been started yet
CliInit ==
    /\ StoreInit
    /\ server = NoServer
    /\ boot = NoBoot
    /\ model = NewModel(0, <<>>)
    /\ prog = "off"

CliNext ==
    \/ \E o \in Origins, p \in Ports, t \in BOOLEAN : RunE(o, p, t)
    \/ \E o \in Origins, p \in Ports : DirectCall(o, p)
    \/ Construct
    \/ Start
    \/ ClearCommand
    \/ Tick(ProxyTTL, MaxTime)
    \/ HandleStep(TestProc)

CliSpec == CliInit /\ [][CliNext]_vars

\* ------------------------------------------------- the proxy in TUI mode
\* the origins a dashboard is started with
TuiOrigins == {RunOrigin, <<":", "//", "invalid-url">>}

\* runTUI: the program starts with a new model, and model.Init's startServer
\* is about to construct the proxy
TuiInit ==
    /\ StoreInit
    /\ server = NoServer
    /\ \E o \in TuiOrigins :
           /\ boot = [pc |-> "construct", path |-> "tui", origin |-> o,
                      port |-> RunPort, err |-> ""]
           /\ model = NewModel(RunPort, o)
    /\ prog = "running"

\* what the dashboard's goroutine does in the running program
TuiStep ==
    \/ ServerStartedMsg
    \/ ServerErrorMsg
    \/ \E k \in PressedKeys : KeyMsg(k)
    \/ \E dim \in WindowSizes : WindowSizeMsg(dim[1], dim[2])
    \/ TickMsg
    \/ UIStep

TuiNext ==
    \/ Construct
    \/ Start
    \/ TuiStep
    \/ Tick(ProxyTTL, MaxTime)
    \/ HandleStep(TestProc)

TuiSpec == TuiInit /\ [][TuiNext]_vars

\* the Go scheduler runs a goroutine that can run, and the program's event
\* loop handles a message that is waiting
TuiFairSpec ==
    /\ TuiSpec
    /\ WF_vars(Construct \/ Start)
    /\ WF_vars(TuiStep)
    /\ WF_vars(HandleStep(TestProc))

\* ---------------------------------------------------- model.Update alone
\* request logs handed to Update, numbered in arrival order
MaxArrivals == 102

Arrivals(mm) == IF mm.requests = <<>> THEN 0 ELSE mm.requests[Len(mm.requests)].Timestamp

\* Update is handed any message, as a test of the model would
UpdateNext ==
    \/ /\ Arrivals(model) < MaxArrivals
       /\ RequestLogMsg(LogEntry(Arrivals(model) + 1))
    \/ \E n \in {0, 2} : CacheUpdateMsg(n)
    \/ \E k \in PressedKeys : KeyMsg(k)
    \/ \E dim \in WindowSizes : WindowSizeMsg(dim[1], dim[2])
    \/ UIStep

UpdateSpec == Init /\ [][UpdateNext]_vars

\* ===================================================== the claims
InRange(statusCode) == statusCode >= 200 /\ statusCode < 400

Fresh(e, t) == t - e.Timestamp <= e.TTL

\* goroutine g takes the step that leaves program point p
Leaves(g, p) == pc[g] = p /\ pc'[g] # p

\* proxy.ServeHTTP returns to the handler of goroutine g
Returns(g) == Leaves(g, "forwarding") /\ pc'[g] # "aborted"

\* between Cache.Get and the hit's return or the miss's forward the handler
\* only logs: what Get returned stays what it was
LogStep(g) ==
    /\ Leaves(g, "get_runlock") => pc'[g] = "log_lock" /\ got'[g] = got[g]
    /\ Leaves(g, "log_lock") => pc'[g] = "log_unlock" /\ got'[g] = got[g]

\* the steps of one request that miss-then-hit is about
MissThenHitStep(g) ==
    /\ Leaves(g, "get_lookup") =>
         /\ key[g] \notin DOMAIN entries => ~got'[g].hit
         /\ (key[g] \in DOMAIN entries /\ Fresh(entries[key[g]], now)) =>
              got'[g] = [hit |-> TRUE, entry |-> entries[key[g]]]
    /\ LogStep(g)
    /\ Leaves(g, "log_unlock") =>
         IF got[g].hit
         THEN pc'[g] = "done" /\ contacted'[g] = 0
         ELSE pc'[g] = "forwarding" /\ contacted'[g] = 1
    /\ (Returns(g) /\ upstream'[g].StatusCode = 200) =>
         /\ pc'[g] = "set_lock"
         /\ arg'[g].Timestamp = now
         /\ arg'[g].TTL = 5
    /\ Leaves(g, "set_lock") => pc'[g] = "set_store"
    /\ Leaves(g, "set_store") =>
         /\ key[g] \in DOMAIN entries'
         /\ entries'[key[g]] = arg[g]
    /\ Leaves(g, "done") => contacted[g] = (IF got[g].hit THEN 0 ELSE 1)

\* key k loses its entry only to a Clear or to the eviction of a stale entry
EntryStays(k) ==
    k \notin DOMAIN entries' =>
        \/ pc[UI] = "clear_store"
        \/ \E h \in Procs : /\ pc[h] = "get_delete"
                            /\ key[h] = k
                            /\ ~Fresh(entries[k], now)

\* C1: miss-then-hit.  A request whose key has no entry misses and is
\* forwarded to the origin; when the origin answers 200 the handler stores an
\* entry under the key; that entry stays under the key until a Clear, the
\* eviction of a stale entry or a later store of the same key; and a request
\* that finds an entry under its key within the entry's TTL is a hit, served
\* without contacting the origin.
MissThenHit ==
    [][ /\ \A g \in Procs : MissThenHitStep(g)
        /\ \A k \in DOMAIN entries : EntryStays(k) ]_vars

\* a request served as a hit, without the origin, from the entry that a
\* forwarded 200 answer left in the store
MissThenHitWitness ==
    \E g \in Procs :
        /\ pc[g] = "done"
        /\ got[g].hit
        /\ contacted[g] = 0
        /\ got[g].entry.StatusCode = 200
        /\ w[g].body = <<"a", "b", "c">>

\* C2: freshness.  Cache.Get finds the key iff the map holds an entry for it
\* and now - Timestamp <= TTL (an age equal to the TTL still hits), and the
\* entry it returns is the one in the map: no entry older than its TTL is
\* returned.
Freshness ==
    [][ \A g \in Procs :
          Leaves(g, "get_lookup") =>
            /\ got'[g].hit <=>
                 (key[g] \in DOMAIN entries /\ now - entries[key[g]].Timestamp <= entries[key[g]].TTL)
            /\ got'[g].hit => got'[g].entry = entries[key[g]]
            /\ ~got'[g].hit => got'[g].entry = NoEntry ]_vars

\* a Get that returned an entry whose age is exactly its TTL
FreshnessWitness ==
    \E g \in Procs :
        /\ pc[g] = "get_runlock"
        /\ got[g].hit
        /\ now - got[g].entry.Timestamp = got[g].entry.TTL

\* the steps of one request from the forward to the store
StatusGatingStep(g) ==
    /\ Returns(g) =>
         /\ rec'[g].statusCode = upstream'[g].StatusCode
         /\ IF InRange(upstream'[g].StatusCode)
            THEN pc'[g] = "set_lock" /\ arg'[g].StatusCode = upstream'[g].StatusCode
            ELSE pc'[g] = "done" /\ arg'[g] = NoEntry
         /\ entries' = entries
    /\ Leaves(g, "set_lock") => pc'[g] = "set_store"
    /\ Leaves(g, "set_store") =>
         /\ InRange(upstream[g].StatusCode)
         /\ key[g] \in DOMAIN entries'
         /\ entries'[key[g]] = arg[g]
    /\ (pc[g] \notin {"set_lock", "set_store", "set_unlock"} /\ pc'[g] # pc[g]) =>
         (pc'[g] = "set_lock" <=> (Returns(g) /\ InRange(upstream'[g].StatusCode)))

\* the entry of key k is created or replaced only by a cacheable request
StoredOnlyWhenCacheable(k) ==
    (k \notin DOMAIN entries \/ entries'[k] # entries[k]) =>
        \E g \in Procs : /\ pc[g] = "set_store"
                         /\ key[g] = k
                         /\ InRange(upstream[g].StatusCode)
                         /\ InRange(entries'[k].StatusCode)

\* C3: status gating.  The status the recorder observed is the one the
\* origin's answer carried; a forward that ends with a status in [200, 400)
\* goes on to Cache.Set and stores its entry under the request's key, any
\* other status (404, 500, the 502 of a failed forward) returns without
\* touching the store; and the entry of a key is created or replaced only by
\* the store of a request whose status is in [200, 400).
StatusGating ==
    [][ /\ \A g \in Procs : StatusGatingStep(g)
        /\ \A k \in DOMAIN entries' : StoredOnlyWhenCacheable(k) ]_vars

\* one request answered 404 returned with no entry under its key while
\* another, answered 301, has stored its entry
StatusGatingWitness ==
    \E g, h \in Procs :
        /\ pc[g] = "done"
        /\ upstream[g].StatusCode = 404
        /\ key[g] \notin DOMAIN entries
        /\ pc[h] = "set_unlock"
        /\ upstream[h].StatusCode = 301
        /\ entries[key[h]].StatusCode = 301

\* the values of header k in header map h, as a set
Values(h, k) == IF k \in DOMAIN h THEN { h[k][i] : i \in 1..Len(h[k]) } ELSE {}

HitDone(g) == pc[g] = "done" /\ got[g].hit

\* C4 as stated: on a hit the client receives every header/value pair of the
\* stored entry plus X-Cache: HIT, the entry's status and the entry's body,
\* and the origin is not contacted.
HitReplayEveryPair ==
    \A g \in Procs :
        HitDone(g) =>
            /\ \A k \in DOMAIN got[g].entry.Headers :
                   Values(got[g].entry.Headers, k) \subseteq Values(w[g].sent, k)
            /\ "HIT" \in Values(w[g].sent, "X-Cache")
            /\ w[g].status = got[g].entry.StatusCode
            /\ w[g].body = got[g].entry.Body
            /\ contacted[g] = 0

\* what a finished hit delivered
HitReplayState ==
    \A g \in Procs :
        HitDone(g) =>
            /\ DOMAIN w[g].sent = DOMAIN got[g].entry.Headers \cup {"X-Cache"}
            /\ \A k \in DOMAIN got[g].entry.Headers \ {"X-Cache"} :
                   w[g].sent[k] = got[g].entry.Headers[k]
            /\ w[g].sent["X-Cache"] = <<"HIT">>
            /\ w[g].status = got[g].entry.StatusCode
            /\ w[g].body = got[g].entry.Body
            /\ contacted[g] = 0
            /\ \A h \in Procs :
                   (HitDone(h) /\ got[h].entry = got[g].entry) => w[h] = w[g]

\* the lookup and the replay of a hit leave the store and the entry alone
HitReplayStep(g) ==
    /\ (Leaves(g, "get_lookup") /\ got'[g].hit) =>
         /\ entries' = entries
         /\ got'[g].entry = entries[key[g]]
    /\ (Leaves(g, "get_runlock") /\ got[g].hit) =>
         /\ entries' = entries
         /\ got'[g] = got[g]
         /\ pc'[g] = "log_lock"
    /\ (Leaves(g, "log_lock") /\ got[g].hit) =>
         /\ entries' = entries
         /\ <<got'[g], w'[g]>> = <<got[g], w[g]>>
         /\ pc'[g] = "log_unlock"
    /\ (Leaves(g, "log_unlock") /\ got[g].hit) =>
         /\ entries' = entries
         /\ <<got'[g], w'[g]>> = <<got[g], w[g]>>
         /\ pc'[g] = "done"

\* C4 as amended: on a hit the client receives the header/value pairs of the
\* stored entry under every name but X-Cache, unchanged and in order, and
\* X-Cache with the single value HIT; the entry's status and the entry's
\* body; the origin is not contacted; the hit changes neither the store nor
\* the entry; two hits on the same entry deliver the same response.
HitReplay ==
    /\ []HitReplayState
    /\ [][ \A g \in Procs : HitReplayStep(g) ]_vars

\* a hit on an entry that itself carries an X-Cache header and a header with
\* two values
HitReplayWitness ==
    \E g \in Procs :
        /\ HitDone(g)
        /\ {"X-Cache", "Set-Cookie"} \subseteq DOMAIN got[g].entry.Headers
        /\ w[g].sent["Set-Cookie"] = <<"a=1", "b=2">>
        /\ w[g].sent["X-Cache"] = <<"HIT">>

MissDone(g) == pc[g] = "done" /\ contacted[g] = 1

\* C5: on a miss every header and every body byte the forward wrote through
\* the recorder reaches the client unmodified and in order.
CapturerPassThrough ==
    \A g \in Procs :
        MissDone(g) =>
            /\ w[g].status = upstream[g].StatusCode
            /\ w[g].body = Concat(upstream[g].Chunks)
            /\ \A k \in DOMAIN upstream[g].Headers :
                   /\ k \in DOMAIN w[g].sent
                   /\ w[g].sent[k] = upstream[g].Headers[k]

\* C6: the response the client receives for a miss contains X-Cache: MISS.
MissHeaderDelivered ==
    \A g \in Procs :
        MissDone(g) =>
            /\ "X-Cache" \in DOMAIN w[g].sent
            /\ w[g].sent["X-Cache"] = <<"MISS">>

\* entry e holds the status, the headers and the whole body of answer r
Captured(e, r) ==
    /\ e.StatusCode = r.StatusCode
    /\ e.Headers = r.Headers
    /\ e.Body = Concat(r.Chunks)

\* C7: the entry a request stores after a forward with a status in
\* [200, 400) holds exactly the status, the headers and the body (the chunks
\* concatenated in write order) of the origin's answer.
CapturerAccumulation ==
    \A g \in Procs :
        /\ pc[g] \in {"set_lock", "set_store", "set_unlock"} =>
             /\ InRange(upstream[g].StatusCode)
             /\ Captured(arg[g], upstream[g])
        /\ pc[g] = "set_unlock" =>
             /\ key[g] \in DOMAIN entries
             /\ Captured(entries[key[g]], upstream[g])

\* the entry just stored for an answer written in two chunks
CapturerAccumulationWitness ==
    \E g \in Procs :
        /\ pc[g] = "set_unlock"
        /\ Len(upstream[g].Chunks) = 2
        /\ entries[key[g]].Body = <<"a", "b", "c">>
        /\ entries[key[g]].Headers = ("Content-Type" :> <<"text/plain">>)

\* g is at a statement that changes the map
Mutating(g) == pc[g] \in {"get_delete", "set_store", "clear_store"}

\* g is between the locking and the unlocking of Cache.mutex
InCritical(g) == g \in readers \cup writers

\* C8: no goroutine changes the map while another goroutine is inside the
\* critical section of a store operation.
MutationSerialized ==
    \A g \in AllProcs :
        Mutating(g) => \A h \in AllProcs \ {g} : ~InCritical(h)

\* the entries some Set installed by time t
Installed(t) == UNION { TestEntries(u) : u \in 0..t }

\* C9: concurrent Get, Set and Clear calls all complete (the process is not
\* stopped), and a Get returns not-found or exactly an entry some Set
\* installed.
ConcurrentSafety ==
    /\ ~crashed
    /\ \A g \in Procs :
          (pc[g] = "get_runlock" /\ got[g].hit) => got[g].entry \in Installed(now)

\* C10: Cache.Get on a key whose entry is stale returns not-found and
\* removes that entry and no other, so that the number of entries, which is
\* what Size returns, is one less than before.
LazyEviction ==
    [][ /\ (Leaves(TestProc, "get_lookup") /\ key[TestProc] \in DOMAIN entries
              /\ now - entries[key[TestProc]].Timestamp > entries[key[TestProc]].TTL) =>
             /\ pc'[TestProc] = "get_delete"
             /\ ~got'[TestProc].hit
        /\ Leaves(TestProc, "get_delete") =>
             /\ key[TestProc] \in DOMAIN entries
             /\ key[TestProc] \notin DOMAIN entries'
             /\ Cardinality(DOMAIN entries') = Cardinality(DOMAIN entries) - 1
             /\ \A k \in DOMAIN entries \ {key[TestProc]} :
                    k \in DOMAIN entries' /\ entries'[k] = entries[k]
             /\ ~got'[TestProc].hit
             /\ pc'[TestProc] = "get_runlock"
        /\ Leaves(TestProc, "size_read") => size'[TestProc] = Cardinality(DOMAIN entries) ]_vars

\* Get has found the only entry stale: created 2 minutes ago with a TTL of 1
LazyEvictionWitness ==
    /\ pc[TestProc] = "get_delete"
    /\ Cardinality(DOMAIN entries) = 1
    /\ entries[key[TestProc]].Timestamp = now - 2
    /\ entries[key[TestProc]].TTL = 1

\* C11: Clear.  Clear leaves the map empty and returns with it empty; the map
\* stays empty until a Set stores; and while it is empty Size returns 0 and
\* Get returns not-found for every key, whatever the map held before.
ClearEmpties ==
    /\ [](\A g \in Procs : pc[g] = "clear_unlock" => entries = EmptyMap)
    /\ [][ /\ \A g \in Procs :
                /\ Leaves(g, "clear_store") =>
                     entries' = EmptyMap /\ pc'[g] = "clear_unlock"
                /\ Leaves(g, "clear_unlock") =>
                     entries' = EmptyMap /\ pc'[g] = "idle"
                /\ (Leaves(g, "size_read") /\ DOMAIN entries = {}) => size'[g] = 0
                /\ (Leaves(g, "get_lookup") /\ DOMAIN entries = {}) =>
                     /\ ~got'[g].hit
                     /\ pc'[g] = "get_runlock"
           /\ (DOMAIN entries = {} /\ DOMAIN entries' # {}) =>
                \E h \in Procs : pc[h] = "set_store" ]_vars

\* Clear holds the lock on a map that holds an entry under every key
ClearEmptiesWitness ==
    \E g \in Procs :
        /\ pc[g] = "clear_store"
        /\ g \in writers
        /\ DOMAIN entries = Keys

\* C12: Set overwrite.  Set(key, entry) makes entry the entry of key, whether
\* or not key had one, and changes no other key; Set returns with entry under
\* key; an entry changes or leaves only by a Set of its key, a Clear or the
\* eviction found stale by a Get of its key; and a Get that finds a fresh
\* entry returns exactly that entry.  The map holds one entry per key.
SetOverwrite ==
    /\ [](DOMAIN entries \subseteq Keys)
    /\ [](\A g \in Procs : pc[g] = "set_unlock" =>
              key[g] \in DOMAIN entries /\ entries[key[g]] = arg[g])
    /\ [][ /\ \A g \in Procs :
                /\ Leaves(g, "set_store") =>
                     /\ DOMAIN entries' = DOMAIN entries \cup {key[g]}
                     /\ entries'[key[g]] = arg[g]
                     /\ \A k \in DOMAIN entries \ {key[g]} : entries'[k] = entries[k]
                /\ Leaves(g, "set_unlock") => entries' = entries
                /\ (Leaves(g, "get_lookup") /\ key[g] \in DOMAIN entries
                      /\ Fresh(entries[key[g]], now)) =>
                     got'[g] = [hit |-> TRUE, entry |-> entries[key[g]]]
           /\ \A k \in DOMAIN entries :
                (k \notin DOMAIN entries' \/ entries'[k] # entries[k]) =>
                    \E h \in Procs :
                        \/ pc[h] = "set_store" /\ key[h] = k
                        \/ pc[h] = "clear_store"
                        \/ pc[h] = "get_delete" /\ key[h] = k /\ ~Fresh(entries[k], now) ]_vars

\* Set is about to replace an entry that has headers by one that has none
SetOverwriteWitness ==
    \E g \in Procs :
        /\ pc[g] = "set_store"
        /\ key[g] \in DOMAIN entries
        /\ entries[key[g]].Headers # EmptyHeader
        /\ arg[g].Headers = EmptyHeader
        /\ arg[g].Body # entries[key[g]].Body

\* the keys for which Get would return an entry at time t
Hittable(t) == { k \in DOMAIN entries : Fresh(entries[k], t) }

\* C13: Size semantics.  Size returns the number of keys in the map, stale
\* entries included, which is at least the number of keys for which Get
\* would return an entry.
SizeCountsStored ==
    /\ [](Cardinality(DOMAIN entries) >= Cardinality(Hittable(now)))
    /\ [][ \A g \in Procs :
             Leaves(g, "size_read") =>
               /\ size'[g] = Cardinality(DOMAIN entries)
               /\ size'[g] >= Cardinality(Hittable(now))
               /\ entries' = entries ]_vars

\* Size returned 2 while one of the two entries is stale
SizeCountsStoredWitness ==
    \E g \in Procs :
        /\ pc[g] = "size_runlock"
        /\ size[g] = 2
        /\ Cardinality(DOMAIN entries) = 2
        /\ Cardinality(Hittable(now)) = 1

\* C14: key derivation.  Two requests get the same key iff their method,
\* URL and User-Agent are the same.
KeyDerivation ==
    \A g, h \in Procs :
        (pc[g] = "keyed" /\ pc[h] = "keyed") =>
            (key[g] = key[h] <=> req[g] = req[h])

\* C15: forwarding failure.  A forward that fails returns the status of the
\* failure, which is outside [200, 400), to the client; the handler returns
\* without calling Cache.Set and without changing the map; the process keeps
\* running and the goroutine takes the next request; the origin is
\* contacted once for the request.
ForwardingFailure ==
    /\ [](\A g \in Procs : contacted[g] <= 1)
    /\ [](\A g \in Procs :
            upstream[g].Failed =>
                /\ pc[g] = "done"
                /\ w[g].wrote
                /\ ~InRange(w[g].status)
                /\ arg[g] = NoEntry
                /\ contacted[g] = 1)
    /\ [][ \A g \in Procs :
             /\ (Returns(g) /\ upstream'[g].Failed) =>
                  /\ entries' = entries
                  /\ pc'[g] = "done"
                  /\ w'[g].status = upstream'[g].StatusCode
                  /\ ~crashed'
             /\ (Leaves(g, "done") /\ upstream[g].Failed) =>
                  /\ entries' = entries
                  /\ pc'[g] = "idle"
                  /\ ~crashed' ]_vars

\* the handler has returned from a failed forward: the client has a 502 and
\* the key has no entry
ForwardingFailureWitness ==
    \E g \in Procs :
        /\ pc[g] = "done"
        /\ upstream[g].Failed
        /\ w[g].status = 502
        /\ contacted[g] = 1
        /\ key[g] \notin DOMAIN entries

\* C16: no partial entries.  Every entry in the map holds the status, the
\* headers and the whole body of an answer of the origin; a forward that is
\* aborted while the body is copied leaves the map as it is and its handler
\* never reaches Cache.Set.
NoPartialEntries ==
    /\ [](\A k \in DOMAIN entries :
            \E r \in Responses : ~r.Failed /\ Captured(entries[k], r))
    /\ [](\A g \in Procs : pc[g] = "aborted" => arg[g] = NoEntry)
    /\ [][ \A g \in Procs :
             /\ (Leaves(g, "forwarding") /\ pc'[g] = "aborted") => entries' = entries
             /\ Leaves(g, "aborted") =>
                  /\ pc'[g] = "idle"
                  /\ entries' = entries ]_vars

\* a forward aborted after the status and the first of two chunks were
\* captured, with no entry under its key
NoPartialEntriesWitness ==
    \E g \in Procs :
        /\ pc[g] = "aborted"
        /\ rec[g].statusCode = 200
        /\ rec[g].body = <<"a", "b">>
        /\ Concat(upstream[g].Chunks) = <<"a", "b", "c">>
        /\ key[g] \notin DOMAIN entries

\* C17: expiry then refetch.  A request that finds the entry of its key
\* older than its TTL is a miss: the lookup reports not-found, the entry is
\* removed and the request is forwarded to the origin; when the forward
\* returns a status in [200, 400) the handler stores under the key an entry
\* created at that time with a TTL of 5 minutes; and a request that finds
\* an entry within its TTL is a hit.
ExpiryRefetch ==
    [][ \A g \in Procs :
          /\ (Leaves(g, "get_lookup") /\ key[g] \in DOMAIN entries
                /\ now - entries[key[g]].Timestamp > entries[key[g]].TTL) =>
               /\ ~got'[g].hit
               /\ pc'[g] = "get_delete"
               /\ ~crashed'
          /\ Leaves(g, "get_delete") =>
               /\ key[g] \notin DOMAIN entries'
               /\ ~got'[g].hit
               /\ pc'[g] = "get_runlock"
          /\ LogStep(g)
          /\ (Leaves(g, "log_unlock") /\ ~got[g].hit) =>
               /\ pc'[g] = "forwarding"
               /\ contacted'[g] = 1
          /\ (Returns(g) /\ InRange(upstream'[g].StatusCode)) =>
               /\ pc'[g] = "set_lock"
               /\ arg'[g].Timestamp = now
               /\ arg'[g].TTL = 5
               /\ arg'[g].StatusCode = upstream'[g].StatusCode
          /\ Leaves(g, "set_store") =>
               /\ key[g] \in DOMAIN entries'
               /\ entries'[key[g]] = arg[g]
          /\ (Leaves(g, "get_lookup") /\ key[g] \in DOMAIN entries
                /\ now - entries[key[g]].Timestamp <= entries[key[g]].TTL) =>
               /\ got'[g].hit
               /\ got'[g].entry = entries[key[g]] ]_vars

\* a request that missed has stored the entry created at minute 10 under the
\* key for which another goroutine still holds its hit on the entry created
\* at minute 0
ExpiryRefetchWitness ==
    \E g, h \in Procs :
        /\ pc[g] = "set_unlock"
        /\ ~got[g].hit
        /\ entries[key[g]].Timestamp = 10
        /\ entries[key[g]].TTL = 5
        /\ pc[h] = "done"
        /\ got[h].hit
        /\ key[h] = key[g]
        /\ got[h].entry.Timestamp = 0

\* the URL has a scheme and a host
Absolute(u) == u.Scheme # "" /\ u.Host # ""

\* C18: origin validation.  NewProxyServer returns a server only for an
\* origin that parses as an absolute URL, the server's origin and port are
\* the arguments, and no request is forwarded with an origin that lacks
\* scheme or host.
OriginValidation ==
    /\ server.built =>
         /\ Absolute(server.origin)
         /\ URLString(server.origin) = JoinTokens(boot.origin)
         /\ server.port = boot.port
    /\ \A g \in Procs : pc[g] = "forwarding" => Absolute(server.origin)

\* C19: port validation.  A port outside 1..65535 ends the start with an
\* error on every path, no ProxyServer is constructed or started with it,
\* and the port a started server listens on is the port it was given.
PortValidation ==
    /\ (boot.pc # "init" /\ (boot.port < 1 \/ boot.port > 65535)) =>
         /\ boot.pc = "exit"
         /\ boot.err # ""
    /\ server.built => (server.port >= 1 /\ server.port <= 65535)
    /\ server.listening => server.bound = boot.port

\* C20: clear-cache command.  When the clear-cache command has reported
\* success the cache of the proxy server holds no entries.
ClearCommandClears ==
    [][ (cmd.out = "" /\ cmd'.out = "Cache cleared successfully") =>
            DOMAIN entries' = {} ]_vars

\* a request of goroutine g has been handled and took the hit path (hit) or
\* the miss path (~hit), the dashboard running
Handled(g, hit) == pc[g] = "done" /\ got[g].hit = hit /\ prog = "running"

\* the history shows a request with that cache-hit flag
Shown(hit) == \E i \in 1..Len(model.requests) : model.requests[i].CacheHit = hit

\* C21 as stated: in TUI mode every request the proxy has handled, a hit or
\* a miss, eventually appears in the request history of the dashboard's
\* model with the cache-hit flag of the path it took (unless the dashboard
\* is quit first).
RequestLogged ==
    \A hit \in BOOLEAN :
        Handled(TestProc, hit) ~> (Shown(hit) \/ prog # "running")

\* the goroutines holding the Cache mutex or the log mutex
Holders == readers \cup writers \cup mu

\* what goroutine g can do next
StepOf(g) == IF g = UI THEN UIStep ELSE HandleStep(g)

\* goroutine g can take a step, or the lock it waits for is held by a
\* goroutine that is not forwarding and can take a step
Unblocked(g) ==
    \/ ENABLED StepOf(g)
    \/ \E h \in Holders \ {g} : pc[h] # "forwarding" /\ ENABLED StepOf(h)

\* C22: non-blocking dispatch.  A goroutine whose request is being forwarded
\* to the origin holds neither the Cache mutex nor the log mutex, so no
\* goroutine waits on another request's forward: as long as the process
\* runs, every goroutine can take its next step or waits for a lock whose
\* holder can take its next step and is not forwarding (no deadlock).
NonBlockingDispatch ==
    /\ \A g \in Procs : pc[g] = "forwarding" => g \notin Holders
    /\ ~crashed => \A g \in AllProcs : Unblocked(g)

\* two requests for the same absent key have both missed and are both being
\* forwarded, while the dashboard's Clear holds the Cache mutex
NonBlockingDispatchWitness ==
    \E g, h \in Procs :
        /\ g # h
        /\ pc[g] = "forwarding" /\ pc[h] = "forwarding"
        /\ key[g] = key[h]
        /\ key[g] \notin DOMAIN entries
        /\ contacted[g] = 1 /\ contacted[h] = 1
        /\ pc[UI] = "clear_store"

\* the entry of key k is new or another than before
Inserted(k) ==
    /\ k \in DOMAIN entries'
    /\ k \notin DOMAIN entries \/ entries'[k] # entries[k]

\* the entry of key k is gone
Removed(k) == k \in DOMAIN entries /\ k \notin DOMAIN entries'

\* C23: store population.  In every reachable state of the running proxy
\* every entry of the store has a status code in [200, 400), a TTL of 5
\* minutes and a createdAt not later than now; an entry enters the store
\* only by the Cache.Set of a request that missed, after its forward
\* returned with a status in [200, 400); and an entry leaves the store only
\* by Clear or by the eviction, in Get, of the stale entry of Get's key.
StorePopulation ==
    /\ [](\A k \in DOMAIN entries :
            /\ entries[k].StatusCode >= 200 /\ entries[k].StatusCode < 400
            /\ entries[k].TTL = 5
            /\ entries[k].Timestamp <= now)
    /\ [][ \A k \in DOMAIN entries \cup DOMAIN entries' :
             /\ Inserted(k) =>
                  \E g \in Procs :
                      /\ Leaves(g, "set_store")
                      /\ key[g] = k
                      /\ entries'[k] = arg[g]
                      /\ ~got[g].hit /\ contacted[g] = 1
                      /\ ~upstream[g].Failed
                      /\ upstream[g].StatusCode = arg[g].StatusCode
             /\ Removed(k) =>
                  \/ Leaves(UI, "clear_store")
                  \/ \E g \in Procs :
                         /\ Leaves(g, "get_delete")
                         /\ key[g] = k
                         /\ now - entries[k].Timestamp > entries[k].TTL ]_vars

\* a request has just stored the entry of a redirect, built before the
\* clock moved on, while a second entry is in the store
StorePopulationWitness ==
    \E g \in Procs :
        /\ pc[g] = "set_unlock"
        /\ entries[key[g]] = arg[g]
        /\ arg[g].StatusCode >= 300
        /\ arg[g].Timestamp < now
        /\ Cardinality(DOMAIN entries) > 1

\* every key but k has the entry it had, or none as before
OthersKept(k) ==
    /\ DOMAIN entries' \ {k} = DOMAIN entries \ {k}
    /\ \A x \in DOMAIN entries \ {k} : entries'[x] = entries[x]

\* C24: frame of the store operations.  A Get of an absent or a fresh key
\* leaves the whole store unchanged; the delete of a Get of a stale key and
\* the store of a Set change only the mapping of their key and leave the
\* entry of every other key, a stale one too, as it is; Size never changes
\* the store.
StoreFrame ==
    [][ \A g \in Procs :
          /\ Leaves(g, "get_rlock") => entries' = entries
          /\ Leaves(g, "get_lookup") =>
               /\ entries' = entries
               /\ pc'[g] = "get_delete" <=>
                    (key[g] \in DOMAIN entries
                       /\ now - entries[key[g]].Timestamp > entries[key[g]].TTL)
          /\ Leaves(g, "get_delete") => OthersKept(key[g])
          /\ Leaves(g, "get_runlock") => entries' = entries
          /\ Leaves(g, "set_lock") => entries' = entries
          /\ Leaves(g, "set_store") => OthersKept(key[g])
          /\ Leaves(g, "set_unlock") => entries' = entries
          /\ pc[g] \in {"size_rlock", "size_read", "size_runlock"} =>
               (pc'[g] # pc[g] => entries' = entries) ]_vars

\* a Get is about to delete the stale entry of its key while another key
\* holds a stale entry too
StoreFrameWitness ==
    \E g \in Procs :
        /\ pc[g] = "get_delete"
        /\ \E x \in DOMAIN entries \ {key[g]} :
               now - entries[x].Timestamp > entries[x].TTL

\* the history after a request log arrived: the log is appended, and beyond
\* 100 entries the oldest is dropped
Arrived(before, after) ==
    /\ after # <<>>
    /\ after = Append(IF Len(before) < 100 THEN before ELSE Tail(before),
                      after[Len(after)])

\* C25: dashboard history bound.  After any sequence of messages handled by
\* model.Update the request history holds at most 100 entries, the selected
\* index is at least 0 and at most max(len(requests) - 1, 0), and the history
\* changes only by a request log appended at its end, with the oldest entry
\* dropped once there would be more than 100.
HistoryBound ==
    /\ [](/\ Len(model.requests) <= 100
          /\ model.selected >= 0
          /\ model.selected <= (IF Len(model.requests) > 0
                                THEN Len(model.requests) - 1 ELSE 0))
    /\ [][ model'.requests # model.requests =>
             Arrived(model.requests, model'.requests) ]_vars

\* two more request logs than the history holds have arrived: the two oldest
\* are gone, and the last entry is selected
HistoryBoundWitness ==
    /\ Len(model.requests) = 100
    /\ model.requests[1] = LogEntry(3)
    /\ model.requests[100] = LogEntry(102)
    /\ model.selected = 99


====
